---- MODULE Spec2Model ----
(***************************************************************************)
(* Model of MeliClient.GetProductBestPriceWithLink                         *)
(* (src/internal/api/meli_client.go:499-719): one resolution of the best   *)
(* price of a catalog product.  The function is sequential; the model      *)
(* steps at its blocking HTTP calls and at each iteration of the `range`   *)
(* loops of processBody.  The content of a response is chosen by the       *)
(* environment: the JSON kind, the array lengths and the paging descriptor *)
(* when the response arrives, each array element when the loop reaches it. *)
(* Prices are integers standing for float64 values below math.MaxFloat64.  *)
(* Title and Permalink are copied verbatim by the code and are left out.   *)
(*                                                                         *)
(* Further specifications over the same variables: SpecShapes (one page    *)
(* delivered in each shape), SpecConc (two calls on one client), SpecTop   *)
(* (MeliClient.TopSoldByCategory, meli_client.go:83-153) and SpecToken     *)
(* (the access token of a request, oauth_handler.go:38-79 and              *)
(* main.go:52-83).  Each leaves the variables of the others as they are.   *)
(***************************************************************************)
EXTENDS Integers, Sequences, FiniteSets, TLC

VARIABLES
    productID,   \* argument of the call
    pc,          \* position in the function
    requests,    \* HTTP requests issued so far, in order
    bestPrice,   \* *ProductPrice, Nil or [Price, ItemID]
    minPrice,    \* running minimum, starts at math.MaxFloat64
    paging,      \* pagingInfo returned by processBody for the first page
    offset,      \* loop variable of the pagination loop
    first,       \* TRUE while the first page is being processed
    shape,       \* branch of processBody taken for the current page
    left,        \* elements of the current page not yet ranged over
    retVal,      \* returned *ProductPrice (Nil before return / on error)
    retErr,      \* returned error (Nil before return / on success)
    lastPage,    \* history: what the last listings response was (pageClass)
    confirmReply,\* history: the confirmation response received
    src,         \* history: the listing (and shape) bestPrice was built from
    least,       \* history: least price > 0 seen, per status and wire format
    folded,      \* history: pages for which processBody returned without error
    lastBad,     \* history: body of the last listings response with no listing
    cancelled,   \* history: the fetch during which ctx was cancelled ("no": none)
    firstLow,    \* history: first listing seen at the least price, per eligibility
    both,        \* history: the last listings body had "items" and "results"
    plain,       \* GetProductBestPrice run on the same responses
    probe,       \* shape comparison: accumulator of each delivery
    probeLen,    \* shape comparison: listings delivered so far
    probeActive, \* shape comparison: every priced listing so far was active
    probeOut,    \* shape comparison: outcome of each delivery
    topPc,       \* TopSoldByCategory: position in the function
    topLimit,    \* TopSoldByCategory: the limit argument
    content,     \* TopSoldByCategory: len(highlights.Content)
    hIndex,      \* TopSoldByCategory: position of the range loop in Content
    topItems,    \* TopSoldByCategory: the items slice
    topSeen,     \* history: what each highlight processed so far came to
    topRet,      \* TopSoldByCategory: [items: returned slice] (Nil before return / on error)
    currentToken,\* handlers.currentToken, the token kept in memory
    envToken,    \* os.Getenv("ML_ACCESS_TOKEN")
    lastCall,    \* history: the last request served, what it saw and gave
    client,      \* concurrent resolutions: the MeliClient they share
    runs,        \* concurrent resolutions: locals and history of each call
    accs         \* concurrent resolutions: the (minPrice, bestPrice) variables

resolutionVars == <<productID, pc, requests, bestPrice, minPrice, paging, offset,
                    first, shape, left, retVal, retErr, lastPage, confirmReply,
                    src, least, folded, lastBad, cancelled, firstLow, both, plain>>
probeVars == <<probe, probeLen, probeActive, probeOut>>
topVars == <<topPc, topLimit, content, hIndex, topItems, topSeen, topRet>>
tokenVars == <<currentToken, envToken, lastCall>>
concVars == <<client, runs, accs>>
vars == <<productID, pc, requests, bestPrice, minPrice, paging, offset,
          first, shape, left, retVal, retErr, lastPage, confirmReply,
          src, least, folded, lastBad, cancelled, firstLow, both, plain,
          probe, probeLen, probeActive, probeOut,
          topPc, topLimit, content, hIndex, topItems, topSeen, topRet,
          currentToken, envToken, lastCall, client, runs, accs>>

----------------------------------------------------------------------------
(* Bounds and domains *)

MaxLen == 2

MaxFloat64 == 2147483647

StatusOK == 200

Nil == [nil |-> TRUE]

\* "%zz" stands for any string that url.Parse rejects (bad escape, control byte)
ProductIDs == {"MLB123", "%zz"}
Ids == {"A", "B", "", "%zz"}
Prices == {0, 80, 100}
Statuses == {"active", "paused"}

\* A listing of the product (spec data model: identifier, price, status)
Listings == [id : Ids, price : Prices, status : Statuses]

Totals == {0, 20, 25}
Offsets == {0, 10}
Limits == {0, 10}
Pagings == [Total : Totals, Offset : Offsets, Limit : Limits]

Shapes == {"wrapped", "bare", "paged"}

\* Response bodies of the listings endpoint: JSON kind, array lengths, paging
Bodies ==
    {[json |-> "invalid"]}
    \cup [json : {"array"}, len : 0..MaxLen]
    \cup [json : {"object"}, items : 0..MaxLen, results : 0..MaxLen, paging : Pagings]

\* Outcomes of httpClient.Do followed by io.ReadAll for a listings page:
\* no response, a non-200 response, a body that cannot be read, a body
PageResponses ==
    {[kind |-> "err", status |-> 0, read |-> FALSE, body |-> [json |-> "invalid"]]}
    \cup {[kind |-> "http", status |-> 500, read |-> TRUE, body |-> [json |-> "invalid"]]}
    \cup {[kind |-> "http", status |-> StatusOK, read |-> FALSE, body |-> [json |-> "invalid"]]}
    \cup [kind : {"http"}, status : {StatusOK}, read : {TRUE}, body : Bodies]

\* Outcomes of httpClient.Do for the confirmation lookup.  On error
\* http.Client.Do returns a nil response, except when CheckRedirect fails.
ConfirmBodies == {[json |-> "invalid"]} \cup [json : {"object"}, status : {"active", "paused", ""}]
ConfirmResponses ==
    [kind : {"err"}, resp : BOOLEAN]
    \cup {[kind |-> "http", status |-> 404]}
    \cup [kind : {"http"}, status : {StatusOK}, body : ConfirmBodies]

----------------------------------------------------------------------------
(* Pure parts of the function *)

\* url.Parse inside http.NewRequestWithContext (newRequest)
urlParses(s) == s # "%zz"

pagingInfo(t, o, l) == [Total |-> t, Offset |-> o, Limit |-> l]

\* The listing as an element of "items" / of a bare array, decoded into Item
Item(l) == [ID |-> l.id, Price |-> l.price, Status |-> l.status]

\* The listing as an element of "results", decoded into the anonymous struct
\* of highlightPage: item_id and price only, the element carries no status
Result(l) == [ItemID |-> l.id, Price |-> l.price]

ProductPrice(p, id) == [Price |-> p, ItemID |-> id]

\* foldItem that never lowers minPrice
foldItem_keepsMin(acc, it) ==
    IF it.Price <= 0 THEN acc
    ELSE IF it.Status # "active" THEN acc
    ELSE IF it.Price < acc.minPrice
         THEN [minPrice |-> acc.minPrice, bestPrice |-> ProductPrice(it.Price, it.ID)]
         ELSE acc

\* foldItem without the status test
foldItem_anyStatus(acc, it) ==
    IF it.Price <= 0 THEN acc
    ELSE IF it.Price < acc.minPrice
         THEN [minPrice |-> it.Price, bestPrice |-> ProductPrice(it.Price, it.ID)]
         ELSE acc

\* foldItem that also takes a listing at the same price
foldItem_lastOfEqual(acc, it) ==
    IF it.Price <= 0 THEN acc
    ELSE IF it.Status # "active" THEN acc
    ELSE IF it.Price <= acc.minPrice
         THEN [minPrice |-> it.Price, bestPrice |-> ProductPrice(it.Price, it.ID)]
         ELSE acc

\* Body of the range loop of the wrapped and of the bare branch
foldItem(acc, it) ==
    IF it.Price <= 0 THEN acc
    ELSE IF it.Status # "active" THEN acc
    ELSE IF it.Price < acc.minPrice
         THEN [minPrice |-> it.Price, bestPrice |-> ProductPrice(it.Price, it.ID)]
         ELSE acc

\* foldResult without the price test
foldResult_anyPrice(acc, r) ==
    IF r.Price < acc.minPrice
    THEN [minPrice |-> r.Price, bestPrice |-> ProductPrice(r.Price, r.ItemID)]
    ELSE acc

\* foldResult that takes every priced element, cheaper or not
foldResult_lastWins(acc, r) ==
    IF r.Price <= 0 THEN acc
    ELSE [minPrice |-> r.Price, bestPrice |-> ProductPrice(r.Price, r.ItemID)]

\* Body of the range loop of the paged branch
foldResult(acc, r) ==
    IF r.Price <= 0 THEN acc
    ELSE IF r.Price < acc.minPrice
         THEN [minPrice |-> r.Price, bestPrice |-> ProductPrice(r.Price, r.ItemID)]
         ELSE acc

\* One listing folded by the branch of the given shape
foldByShape(s, acc, l) ==
    IF s = "paged" THEN foldResult(acc, Result(l)) ELSE foldItem(acc, Item(l))

\* detectShape that accepts a decoded shape whose array is empty
detectShape_acceptsEmpty(body) ==
    IF body.json = "object" /\ body.items >= 0 THEN "wrapped"
    ELSE IF body.json = "array" /\ body.len >= 0 THEN "bare"
    ELSE IF body.json = "object" /\ body.results >= 0 THEN "paged"
    ELSE "unknown"

\* detectShape that tries the paged shape first
detectShape_pagedFirst(body) ==
    IF body.json = "object" /\ body.results > 0 THEN "paged"
    ELSE IF body.json = "object" /\ body.items > 0 THEN "wrapped"
    ELSE IF body.json = "array" /\ body.len > 0 THEN "bare"
    ELSE "unknown"

\* The three json.Unmarshal attempts of processBody, in order
detectShape(body) ==
    IF body.json = "object" /\ body.items > 0 THEN "wrapped"
    ELSE IF body.json = "array" /\ body.len > 0 THEN "bare"
    ELSE IF body.json = "object" /\ body.results > 0 THEN "paged"
    ELSE "unknown"

\* Length of the array the accepted branch ranges over
shapeLen(body) ==
    CASE detectShape(body) = "wrapped" -> body.items
      [] detectShape(body) = "bare" -> body.len
      [] detectShape(body) = "paged" -> body.results
      [] OTHER -> 0

\* pagingInfo returned by processBody
shapePaging(body) ==
    IF detectShape(body) = "paged" THEN body.paging ELSE pagingInfo(0, 0, 0)

errorf(msg) == [msg |-> msg]

\* The URL of a request, as *url.Error prints it: it holds the product id
requestURL(pid, req) == [product |-> pid, request |-> req]

\* Error of newRequest or of httpClient.Do, returned as it is: a *url.Error
urlError(msg, url) == [msg |-> msg, url |-> url]

\* statusError with the first page's text for every page
statusError_unpaged(paged, resp) ==
    [msg |-> "meli product items: status", status |-> resp.status, body |-> resp.body]

\* fmt.Errorf("meli product items: status=%d - %s", resp.StatusCode, string(b))
statusError(paged, resp) ==
    [msg |-> IF paged THEN "meli product items (paged): status"
                      ELSE "meli product items: status",
     status |-> resp.status, body |-> resp.body]

\* decodeError that prints no body
decodeError_noBody(paged, body) ==
    [msg |-> IF paged THEN "json decode product items (paged): unknown items response format"
                      ELSE "json decode product items: unknown items response format",
     body |-> [json |-> "invalid"]]

\* fmt.Errorf("json decode product items: %w - body: %s", err, string(bodyBytes))
decodeError(paged, body) ==
    [msg |-> IF paged THEN "json decode product items (paged): unknown items response format"
                      ELSE "json decode product items: unknown items response format",
     body |-> body]

\* fmt.Errorf("best price item %s is not active (status=%s)", ItemID, Status)
notActiveError(id, status) ==
    [msg |-> "best price item is not active", item |-> id, status |-> status]

\* fmt.Errorf("no active items with price for product %s", productID)
noActiveError(pid) ==
    [msg |-> "no active items with price for product", product |-> pid]

\* pageError that goes on after a failed Do on a later page
pageError_skipsTransport(resp, paged, url) ==
    IF resp.kind = "err" /\ ~paged THEN urlError("http client error", url)
    ELSE IF resp.kind = "err" THEN Nil
    ELSE IF resp.status # StatusOK THEN statusError(paged, resp)
    ELSE IF ~resp.read THEN errorf("read body error")
    ELSE IF detectShape(resp.body) = "unknown" THEN decodeError(paged, resp.body)
    ELSE Nil

\* Failure of a listings fetch up to and including processBody: Nil when none
pageError(resp, paged, url) ==
    IF resp.kind = "err" THEN urlError("http client error", url)
    ELSE IF resp.status # StatusOK THEN statusError(paged, resp)
    ELSE IF ~resp.read THEN errorf("read body error")
    ELSE IF detectShape(resp.body) = "unknown" THEN decodeError(paged, resp.body)
    ELSE Nil

\* Loop condition with <= for <
loopContinues_inclusive(off, pg) == off <= pg.Total

\* Loop condition that never holds
loopContinues_never(off, pg) == FALSE

\* Loop condition of the pagination loop
loopContinues(off, pg) == off < pg.Total

\* The guard without its test of the limit
hasPaging_totalOnly(pg) == pg.Total > 0

\* `if paging.Total > 0 && paging.Limit > 0`
hasPaging(pg) == pg.Total > 0 /\ pg.Limit > 0

\* validate that never looks at the confirmed status
validate_ignoresStatus(best, cr) ==
    IF cr.kind = "err" /\ ~cr.resp
    THEN [pc |-> "panicked", retVal |-> Nil, retErr |-> Nil]
    ELSE [pc |-> "done", retVal |-> best, retErr |-> Nil]

\* validate that rejects only a status of "paused"
validate_rejectsPaused(best, cr) ==
    IF cr.kind = "http" /\ cr.status = StatusOK
    THEN IF cr.body.json = "object"
         THEN IF cr.body.status = "paused"
              THEN [pc |-> "done", retVal |-> Nil,
                    retErr |-> notActiveError(best.ItemID, cr.body.status)]
              ELSE [pc |-> "done", retVal |-> best, retErr |-> Nil]
         ELSE [pc |-> "done", retVal |-> best, retErr |-> Nil]
    ELSE IF cr.kind = "err" /\ ~cr.resp
         THEN [pc |-> "panicked", retVal |-> Nil, retErr |-> Nil]
         ELSE [pc |-> "done", retVal |-> best, retErr |-> Nil]

\* validate that fails on a reply other than 200
validate_strict(best, cr) ==
    IF cr.kind = "http" /\ cr.status = StatusOK
    THEN IF cr.body.json = "object"
         THEN IF cr.body.status # "active"
              THEN [pc |-> "done", retVal |-> Nil,
                    retErr |-> notActiveError(best.ItemID, cr.body.status)]
              ELSE [pc |-> "done", retVal |-> best, retErr |-> Nil]
         ELSE [pc |-> "done", retVal |-> best, retErr |-> Nil]
    ELSE IF cr.kind = "err" /\ ~cr.resp
         THEN [pc |-> "panicked", retVal |-> Nil, retErr |-> Nil]
         ELSE [pc |-> "done", retVal |-> Nil, retErr |-> errorf("confirmation failed")]

\* The validation block once the confirmation request was sent (lines 691-718).
\* In the else branch resp.Body.Close() dereferences resp, which is nil when
\* Do failed without a response: the goroutine panics.
validate(best, cr) ==
    IF cr.kind = "http" /\ cr.status = StatusOK
    THEN IF cr.body.json = "object"
         THEN IF cr.body.status # "active"
              THEN [pc |-> "done", retVal |-> Nil,
                    retErr |-> notActiveError(best.ItemID, cr.body.status)]
              ELSE [pc |-> "done", retVal |-> best, retErr |-> Nil]
         ELSE [pc |-> "done", retVal |-> best, retErr |-> Nil]
    ELSE IF cr.kind = "err" /\ ~cr.resp
         THEN [pc |-> "panicked", retVal |-> Nil, retErr |-> Nil]
         ELSE [pc |-> "done", retVal |-> best, retErr |-> Nil]

\* beforeConfirm whose failure does not name the product
beforeConfirm_unnamed(best, pid) ==
    IF best = Nil
    THEN [pc |-> "done", retVal |-> Nil, retErr |-> noActiveError("")]
    ELSE IF best.ItemID = ""
    THEN [pc |-> "done", retVal |-> best, retErr |-> Nil]
    ELSE IF ~urlParses(best.ItemID)
    THEN [pc |-> "done", retVal |-> best, retErr |-> Nil]
    ELSE Nil

\* beforeConfirm without the test of the empty identifier
beforeConfirm_confirmsEmpty(best, pid) ==
    IF best = Nil
    THEN [pc |-> "done", retVal |-> Nil, retErr |-> noActiveError(pid)]
    ELSE IF ~urlParses(best.ItemID)
    THEN [pc |-> "done", retVal |-> best, retErr |-> Nil]
    ELSE Nil

\* What follows the pagination loop up to the confirmation request
\* (lines 679-690): Nil when the confirmation request is sent, else the return
beforeConfirm(best, pid) ==
    IF best = Nil
    THEN [pc |-> "done", retVal |-> Nil,
          retErr |-> noActiveError(pid)]
    ELSE IF best.ItemID = ""
    THEN [pc |-> "done", retVal |-> best, retErr |-> Nil]
    ELSE IF ~urlParses(best.ItemID)
    THEN [pc |-> "done", retVal |-> best, retErr |-> Nil]
    ELSE Nil

----------------------------------------------------------------------------
(* MeliClient.GetProductBestPrice (meli_client.go:345-495): the same page   *)
(* handling with the accumulator (min, found) and no confirmation lookup.   *)

\* plainFoldItem without the status test
plainFoldItem_anyStatus(acc, it) ==
    IF it.Price <= 0 THEN acc
    ELSE IF it.Price < acc.min THEN [acc EXCEPT !.min = it.Price, !.found = TRUE]
    ELSE acc

\* Body of the range loops of lines 376-387 and 394-405
plainFoldItem(acc, it) ==
    IF it.Price <= 0 THEN acc
    ELSE IF it.Status # "active" THEN acc
    ELSE IF it.Price < acc.min THEN [acc EXCEPT !.min = it.Price, !.found = TRUE]
    ELSE acc

\* Body of the range loop of lines 413-424
plainFoldResult(acc, r) ==
    IF r.Price <= 0 THEN acc
    ELSE IF r.Price < acc.min THEN [acc EXCEPT !.min = r.Price, !.found = TRUE]
    ELSE acc

plainFold(s, acc, l) ==
    IF s = "paged" THEN plainFoldResult(acc, Result(l)) ELSE plainFoldItem(acc, Item(l))

\* The call at its entry (lines 365-366)
plainStart ==
    [pc |-> "run", min |-> MaxFloat64, found |-> FALSE, paging |-> pagingInfo(0, 0, 0),
     offset |-> 0, retVal |-> 0, retErr |-> Nil]

plainFail(p, err) == [p EXCEPT !.pc = "done", !.retVal = 0, !.retErr = err]

\* A listings response has arrived (lines 436-453, 471-487); the status
\* check, ReadAll and the shape tests read as those of lines 624-675
plainReceived(p, resp, paged, url) ==
    IF p.pc # "run" THEN p
    ELSE IF pageError(resp, paged, url) # Nil THEN plainFail(p, pageError(resp, paged, url))
    ELSE [p EXCEPT !.paging = IF paged THEN @ ELSE shapePaging(resp.body)]

\* processBody has returned: header and increment of the loop (456-457)
plainEndPage(p, isFirst) ==
    IF p.pc # "run" THEN p
    ELSE IF isFirst
    THEN IF hasPaging(p.paging) THEN [p EXCEPT !.offset = p.paging.Offset + p.paging.Limit]
         ELSE p
    ELSE [p EXCEPT !.offset = @ + p.paging.Limit]

\* After the loop (lines 491-494)
plainReturn(p, pid) ==
    IF p.pc # "run" THEN p
    ELSE IF ~p.found THEN plainFail(p, noActiveError(pid))
    ELSE [p EXCEPT !.pc = "done", !.retVal = p.min]

----------------------------------------------------------------------------
(* The resolution *)

itemsRequest == [path |-> "products/items"]
pagedRequest(off, lim) == [path |-> "products/items", offset |-> off, limit |-> lim]
confirmRequest(id) == [path |-> "items", id |-> id]

Classes == Statuses \X BOOLEAN

NoProbe == [s \in Shapes |-> [minPrice |-> MaxFloat64, bestPrice |-> Nil]]

\* Eligibility of a listing: as the data model states it ("active") and
\* as the branch that decodes it can tell ("foldable")
Groups == {"active", "foldable"}

inGroup(g, l, s) ==
    /\ l.price > 0
    /\ \/ l.status = "active"
       \/ g = "foldable" /\ s = "paged"

\* First listing seen at the least price of its group, and whether another
\* listing of the group came later at that same price
sawListing(f, l) ==
    IF f = Nil \/ (f # Nil /\ l.price < f.price)
    THEN [id |-> l.id, price |-> l.price, tie |-> FALSE]
    ELSE IF l.price = f.price THEN [f EXCEPT !.tie = TRUE]
    ELSE f

\* Arrays carried by a listings body that decodes as an object
bothArrays(resp) ==
    IF resp.kind = "http" /\ resp.status = StatusOK /\ resp.read
       /\ resp.body.json = "object"
       /\ resp.body.items > 0 /\ resp.body.results > 0
    THEN IF hasPaging(resp.body.paging) THEN "bothPaged" ELSE "both"
    ELSE "no"

InitResolution ==
    /\ pc = "start"
    /\ requests = <<>>
    /\ bestPrice = Nil
    /\ minPrice = MaxFloat64
    /\ paging = pagingInfo(0, 0, 0)
    /\ offset = 0
    /\ first = TRUE
    /\ shape = "none"
    /\ left = 0
    /\ retVal = Nil
    /\ retErr = Nil
    /\ lastPage = "none"
    /\ confirmReply = Nil
    /\ src = Nil
    /\ least = [c \in Classes |-> 0]
    /\ folded = 0
    /\ lastBad = Nil
    /\ cancelled = "no"
    /\ firstLow = [g \in Groups |-> Nil]
    /\ both = "no"
    /\ plain = plainStart

\* An access token: the empty string, or a token of some length
NoToken == [id |-> "", len |-> 0]

NoCall == [op |-> "none", cookie |-> NoToken, before |-> NoToken, ret |-> NoToken,
           after |-> NoToken, panicked |-> FALSE, served |-> FALSE]

\* No call of TopSoldByCategory under way
IdleTop ==
    /\ topPc = "idle"
    /\ topLimit = 0
    /\ content = 0
    /\ hIndex = 0
    /\ topItems = <<>>
    /\ topSeen = <<>>
    /\ topRet = Nil

\* No token anywhere, no request served
IdleToken ==
    /\ currentToken = NoToken
    /\ envToken = NoToken
    /\ lastCall = NoCall

\* No concurrent resolutions
IdleConc ==
    /\ client = Nil
    /\ runs = <<>>
    /\ accs = <<>>

InitProbe ==
    /\ probe = NoProbe
    /\ probeLen = 0
    /\ probeActive = TRUE
    /\ probeOut = Nil

Init ==
    /\ productID \in ProductIDs
    /\ InitResolution
    /\ InitProbe
    /\ IdleTop
    /\ IdleToken
    /\ IdleConc

Return(val, err) ==
    /\ pc' = "done"
    /\ retVal' = val
    /\ retErr' = err

\* What a listings response is, read off the response alone
pageClass(resp) ==
    IF resp.kind = "err" THEN "transport"
    ELSE IF resp.status # StatusOK THEN "status"
    ELSE IF ~resp.read THEN "read"
    ELSE IF resp.body.json = "invalid" THEN "malformed"
    ELSE IF resp.body.json = "array" /\ resp.body.len = 0 THEN "empty"
    ELSE IF resp.body.json = "object" /\ resp.body.items = 0 /\ resp.body.results = 0
         THEN "empty"
    ELSE "listings"

\* What Do and ReadAll can give for a listings page once ctx is cancelled:
\* no response, or a response whose body read is cut short
CancelledPage == {r \in PageResponses : r.kind = "err" \/ ~r.read}

\* The same for the confirmation lookup; the error of ReadAll is dropped
\* there (line 693) and the truncated body does not decode
CancelledConfirm ==
    {r \in ConfirmResponses :
        \/ r.kind = "err" /\ ~r.resp
        \/ r.kind = "http" /\ r.status = StatusOK /\ r.body.json = "invalid"}

\* A listings response has arrived: status check, ReadAll, shape detection
Receive(resp, paged, url) ==
    /\ lastPage' = pageClass(resp)
    /\ both' = bothArrays(resp)
    /\ plain' = plainReceived(plain, resp, paged, url)
    /\ lastBad' = IF pageClass(resp) \in {"malformed", "empty"} THEN resp.body ELSE Nil
    /\ IF pageError(resp, paged, url) # Nil
       THEN /\ Return(Nil, pageError(resp, paged, url))
            /\ UNCHANGED <<shape, left, paging>>
       ELSE /\ pc' = "fold"
            /\ shape' = detectShape(resp.body)
            /\ left' = shapeLen(resp.body)
            /\ paging' = IF paged THEN paging ELSE shapePaging(resp.body)
            /\ UNCHANGED <<retVal, retErr>>

\* Initial request (lines 619-638)
FirstPage ==
    /\ pc = "start"
    /\ IF ~urlParses(productID)
       THEN /\ Return(Nil, urlError("new request error",
                                    requestURL(productID, itemsRequest)))
            /\ plain' = plainFail(plain, urlError("new request error",
                                                  requestURL(productID, itemsRequest)))
            /\ UNCHANGED <<requests, shape, left, paging, lastPage, lastBad, cancelled,
                           both>>
       ELSE /\ requests' = Append(requests, itemsRequest)
            /\ \E resp \in PageResponses, c \in BOOLEAN :
                 /\ c => resp \in CancelledPage
                 /\ cancelled' = IF c THEN "page" ELSE cancelled
                 /\ Receive(resp, FALSE, requestURL(productID, itemsRequest))
    /\ UNCHANGED <<productID, bestPrice, minPrice, offset, first, confirmReply,
                   src, least, folded, firstLow>>
    /\ UNCHANGED <<probeVars, topVars, tokenVars, concVars>>

Min0(a, b) == IF a = 0 THEN b ELSE IF b = 0 THEN a ELSE IF a < b THEN a ELSE b

\* One iteration of the range loop of the accepted branch
Fold ==
    /\ pc = "fold"
    /\ left > 0
    /\ \E l \in Listings :
        LET old == [minPrice |-> minPrice, bestPrice |-> bestPrice]
            acc == foldByShape(shape, old, l)
            c == <<l.status, shape = "paged">>
        IN /\ minPrice' = acc.minPrice
           /\ bestPrice' = acc.bestPrice
           /\ src' = IF acc # old THEN [listing |-> l, shape |-> shape] ELSE src
           /\ least' = IF l.price > 0
                       THEN [least EXCEPT ![c] = Min0(@, l.price)] ELSE least
           /\ firstLow' = [g \in Groups |->
                             IF inGroup(g, l, shape) THEN sawListing(firstLow[g], l)
                             ELSE firstLow[g]]
           /\ plain' = IF plain.pc # "run" THEN plain
                       ELSE LET a == plainFold(shape, [min |-> plain.min,
                                                       found |-> plain.found], l)
                            IN [plain EXCEPT !.min = a.min, !.found = a.found]
    /\ left' = left - 1
    /\ UNCHANGED <<productID, pc, requests, paging, offset, first, shape,
                   retVal, retErr, lastPage, confirmReply, folded, lastBad, cancelled,
                   both>>
    /\ UNCHANGED <<probeVars, topVars, tokenVars, concVars>>

\* processBody returns a nil error; header of the pagination loop (638-645)
EndPage ==
    /\ pc = "fold"
    /\ left = 0
    /\ folded' = folded + 1
    /\ first' = FALSE
    /\ plain' = plainEndPage(plain, first)
    /\ IF first
       THEN IF hasPaging(paging)
            THEN /\ offset' = paging.Offset + paging.Limit
                 /\ pc' = "loop"
            ELSE /\ offset' = offset
                 /\ pc' = "select"
       ELSE /\ offset' = offset + paging.Limit
            /\ pc' = "loop"
    /\ UNCHANGED <<productID, requests, bestPrice, minPrice, paging, shape, left,
                   retVal, retErr, lastPage, confirmReply, src, least, lastBad,
                   cancelled, firstLow, both>>
    /\ UNCHANGED <<probeVars, topVars, tokenVars, concVars>>

\* One further page request (lines 645-675)
NextPage ==
    /\ pc = "loop"
    /\ loopContinues(offset, paging)
    /\ IF ~urlParses(productID)
       THEN /\ pc' = "select"     \* url.Parse(endpoint) fails: break
            /\ UNCHANGED <<requests, shape, left, paging, retVal, retErr, lastPage,
                           lastBad, cancelled, both, plain>>
       ELSE /\ requests' = Append(requests, pagedRequest(offset, paging.Limit))
            /\ \E resp \in PageResponses, c \in BOOLEAN :
                 /\ c => resp \in CancelledPage
                 /\ cancelled' = IF c THEN "page" ELSE cancelled
                 /\ Receive(resp, TRUE,
                            requestURL(productID, pagedRequest(offset, paging.Limit)))
    /\ UNCHANGED <<productID, bestPrice, minPrice, offset, first, confirmReply,
                   src, least, folded, firstLow>>
    /\ UNCHANGED <<probeVars, topVars, tokenVars, concVars>>

\* After the loop: bestPrice == nil check and the confirmation request (679-691)
SelectBest ==
    /\ \/ pc = "select"
       \/ pc = "loop" /\ ~loopContinues(offset, paging)
    /\ LET r == beforeConfirm(bestPrice, productID)
       IN IF r # Nil
          THEN /\ Return(r.retVal, r.retErr)
               /\ UNCHANGED requests
          ELSE /\ pc' = "validate"
               /\ requests' = Append(requests, confirmRequest(bestPrice.ItemID))
               /\ UNCHANGED <<retVal, retErr>>
    /\ plain' = plainReturn(plain, productID)
    /\ UNCHANGED <<productID, bestPrice, minPrice, paging, offset, first, shape, left,
                   lastPage, confirmReply, src, least, folded, lastBad, cancelled,
                   firstLow, both>>
    /\ UNCHANGED <<probeVars, topVars, tokenVars, concVars>>

\* The confirmation response has arrived (lines 691-718)
Validate ==
    /\ pc = "validate"
    /\ \E cr \in ConfirmResponses, c \in BOOLEAN :
        LET r == validate(bestPrice, cr)
        IN /\ c => cr \in CancelledConfirm
           /\ cancelled' = IF c THEN "confirm" ELSE cancelled
           /\ confirmReply' = cr
           /\ pc' = r.pc
           /\ retVal' = r.retVal
           /\ retErr' = r.retErr
    /\ UNCHANGED <<productID, requests, bestPrice, minPrice, paging, offset, first,
                   shape, left, lastPage, src, least, folded, lastBad, firstLow,
                   both, plain>>
    /\ UNCHANGED <<probeVars, topVars, tokenVars, concVars>>

Next == FirstPage \/ Fold \/ EndPage \/ NextPage \/ SelectBest \/ Validate

Spec == Init /\ [][Next]_vars

----------------------------------------------------------------------------
(* The same listings delivered in each of the three shapes, one page:     *)
(* three runs of the function in lockstep, fed the same listings and the  *)
(* same confirmation response.                                            *)

\* The single page carrying n listings in shape s
shapeBody(s, n, pg) ==
    CASE s = "wrapped" -> [json |-> "object", items |-> n, results |-> 0,
                           paging |-> pagingInfo(0, 0, 0)]
      [] s = "bare" -> [json |-> "array", len |-> n]
      [] s = "paged" -> [json |-> "object", items |-> 0, results |-> n, paging |-> pg]

\* Paging descriptors after which the pagination loop fetches nothing
SinglePage == {pg \in Pagings :
                 ~hasPaging(pg) \/ ~loopContinues(pg.Offset + pg.Limit, pg)}

\* The function's return on that page, given its folded accumulator
resolveOnePage(s, n, pg, acc, cr) ==
    LET resp == [kind |-> "http", status |-> StatusOK, read |-> TRUE,
                 body |-> shapeBody(s, n, pg)]
        url == requestURL("MLB123", itemsRequest)
    IN IF pageError(resp, FALSE, url) # Nil
       THEN [pc |-> "done", retVal |-> Nil, retErr |-> pageError(resp, FALSE, url)]
       ELSE IF beforeConfirm(acc.bestPrice, "MLB123") # Nil
            THEN beforeConfirm(acc.bestPrice, "MLB123")
            ELSE validate(acc.bestPrice, cr)

InitShapes ==
    /\ productID = "MLB123"
    /\ InitResolution
    /\ InitProbe
    /\ IdleTop
    /\ IdleToken
    /\ IdleConc

\* The next listing of the page, folded by each shape's branch
ProbeFold ==
    /\ probeOut = Nil
    /\ probeLen < MaxLen
    /\ \E l \in Listings :
        /\ probe' = [s \in Shapes |-> foldByShape(s, probe[s], l)]
        /\ probeActive' = (probeActive /\ (l.price > 0 => l.status = "active"))
    /\ probeLen' = probeLen + 1
    /\ UNCHANGED probeOut
    /\ UNCHANGED <<resolutionVars, topVars, tokenVars, concVars>>

\* End of the page: each run selects and validates its candidate
ProbeResolve ==
    /\ probeOut = Nil
    /\ \E pg \in SinglePage, cr \in ConfirmResponses :
        probeOut' = [s \in Shapes |-> resolveOnePage(s, probeLen, pg, probe[s], cr)]
    /\ UNCHANGED <<probe, probeLen, probeActive>>
    /\ UNCHANGED <<resolutionVars, topVars, tokenVars, concVars>>

NextShapes == ProbeFold \/ ProbeResolve

SpecShapes == InitShapes /\ [][NextShapes]_vars

----------------------------------------------------------------------------
(* MeliClient.TopSoldByCategory (meli_client.go:83-153): the highlights of  *)
(* a category, each resolved to its detail and its best price.              *)

MaxHighlights == 3
MaxLimit == 2

TopLimits == 1..MaxLimit

\* Outcomes of the highlights request: Do fails, non-200, undecodable body,
\* or a HighlightResponse with n entries in Content
HighlightsResponses ==
    [kind : {"err", "status", "undecodable"}, n : {0}]
    \cup [kind : {"ok"}, n : 0..MaxHighlights]

\* Outcomes of GetHighlightDetail
DetailOutcomes == {"ok", "err"}

\* Permalink of a ProductPrice: of the listing, or "" from a paged page
Permalinks == {"", "link"}

\* Ends of GetProductBestPriceWithLink: a price, a failure, the panic
BestPriceOutcomes ==
    {[pc |-> "done", retVal |-> ProductPrice(p, "A"), Permalink |-> l, retErr |-> Nil] :
        p \in Prices \ {0}, l \in Permalinks}
    \cup {[pc |-> "done", retVal |-> Nil, Permalink |-> "",
           retErr |-> noActiveError("MLB123")],
          [pc |-> "panicked", retVal |-> Nil, Permalink |-> "", retErr |-> Nil]}

\* What one highlight came to: a failed lookup or resolution, or a price
\* and a link
seenFailed(h) == [highlight |-> h, failed |-> TRUE, Price |-> 0, LinkVenda |-> ""]
seenResolved(h, out) ==
    [highlight |-> h, failed |-> FALSE, Price |-> out.retVal.Price,
     LinkVenda |-> out.Permalink]

\* Failure of the highlights request (lines 109-125): Nil when none
topError(resp) ==
    IF resp.kind = "err" THEN errorf("http client error")
    ELSE IF resp.kind = "status" THEN errorf("meli search: unexpected status")
    ELSE IF resp.kind = "undecodable" THEN errorf("json decode error")
    ELSE Nil

InitTop ==
    /\ topPc = "call"
    /\ topLimit \in TopLimits
    /\ content = 0
    /\ hIndex = 0
    /\ topItems = <<>>
    /\ topSeen = <<>>
    /\ topRet = Nil
    /\ productID = "MLB123"
    /\ InitResolution
    /\ InitProbe
    /\ IdleToken
    /\ IdleConc

\* The highlights request and its decoding (lines 86-128)
TopCall ==
    /\ topPc = "call"
    /\ \E resp \in HighlightsResponses :
         IF topError(resp) # Nil
         THEN /\ topPc' = "failed"
              /\ UNCHANGED <<content, hIndex>>
         ELSE /\ topPc' = "loop"
              /\ content' = resp.n
              /\ hIndex' = 1
    /\ UNCHANGED <<topLimit, topItems, topSeen, topRet>>
    /\ UNCHANGED <<resolutionVars, probeVars, tokenVars, concVars>>

\* One iteration of the range loop over highlights.Content (lines 130-150)
TopStep ==
    /\ topPc = "loop"
    /\ hIndex <= content
    /\ \E detail \in DetailOutcomes, out \in BestPriceOutcomes :
         IF detail = "err"
         THEN /\ hIndex' = hIndex + 1
              /\ topSeen' = Append(topSeen, seenFailed(hIndex))
              /\ UNCHANGED <<topPc, topItems>>
         ELSE IF out.pc = "panicked"
         THEN /\ topPc' = "panicked"
              /\ topSeen' = Append(topSeen, seenFailed(hIndex))
              /\ UNCHANGED <<hIndex, topItems>>
         ELSE IF out.retErr # Nil
         THEN /\ hIndex' = hIndex + 1
              /\ topSeen' = Append(topSeen, seenFailed(hIndex))
              /\ UNCHANGED <<topPc, topItems>>
         ELSE /\ hIndex' = hIndex + 1
              /\ topItems' = Append(topItems, [highlight |-> hIndex,
                                               Price |-> out.retVal.Price,
                                               LinkVenda |-> out.Permalink])
              /\ topSeen' = Append(topSeen, seenResolved(hIndex, out))
              /\ UNCHANGED topPc
    /\ UNCHANGED <<topLimit, content, topRet>>
    /\ UNCHANGED <<resolutionVars, probeVars, tokenVars, concVars>>

\* `return items, nil` (line 152)
TopReturn ==
    /\ topPc = "loop"
    /\ hIndex > content
    /\ topPc' = "done"
    /\ topRet' = [items |-> topItems]
    /\ UNCHANGED <<topLimit, content, hIndex, topItems, topSeen>>
    /\ UNCHANGED <<resolutionVars, probeVars, tokenVars, concVars>>

NextTop == TopCall \/ TopStep \/ TopReturn

SpecTop == InitTop /\ [][NextTop]_vars

----------------------------------------------------------------------------
(* The access token of a request (oauth_handler.go:38-79, main.go:52-83)    *)

\* `token[:20]` in the log lines
LogPrefix == 20

TokenLens == {5, 20, 40}
Tokens == {NoToken} \cup [id : {"t1", "t2"}, len : TokenLens]

\* The Go slice expression s[:n]: Nil stands for the run-time panic
\* "slice bounds out of range" when n > len(s)
sliceTo(t, n) == IF n <= t.len THEN [id |-> t.id, len |-> n] ELSE Nil

\* GetTokenFromContext (oauth_handler.go:56-79): the token returned, the
\* token left in memory, and whether a log line panicked.  A cookie that is
\* absent (c.Cookie returns an error) counts as the empty cookie.
GetTokenFromContext(mem, cookie, env) ==
    IF mem # NoToken
    THEN IF sliceTo(mem, LogPrefix) = Nil
         THEN [ret |-> NoToken, mem |-> mem, panicked |-> TRUE]
         ELSE [ret |-> mem, mem |-> mem, panicked |-> FALSE]
    ELSE IF cookie # NoToken
    THEN IF sliceTo(cookie, LogPrefix) = Nil
         THEN [ret |-> NoToken, mem |-> mem, panicked |-> TRUE]
         ELSE [ret |-> cookie, mem |-> cookie, panicked |-> FALSE]
    ELSE IF env # NoToken /\ sliceTo(env, LogPrefix) = Nil
    THEN [ret |-> NoToken, mem |-> mem, panicked |-> TRUE]
    ELSE [ret |-> env, mem |-> mem, panicked |-> FALSE]

\* getMarketingHandler (main.go:63-75): the token the client is built with
getMarketingHandler(mem, cookie, env) ==
    LET r == GetTokenFromContext(mem, cookie, env)
        meliAccessToken == IF r.ret = NoToken THEN env ELSE r.ret
    IN IF r.panicked THEN r
       ELSE IF sliceTo(meliAccessToken, LogPrefix) = Nil
       THEN [ret |-> NoToken, mem |-> r.mem, panicked |-> TRUE]
       ELSE [ret |-> meliAccessToken, mem |-> r.mem, panicked |-> FALSE]

InitToken ==
    /\ currentToken = NoToken
    /\ envToken \in Tokens
    /\ lastCall = NoCall
    /\ productID = "MLB123"
    /\ InitResolution
    /\ InitProbe
    /\ IdleTop
    /\ IdleConc

\* SetCurrentToken (oauth_handler.go:46-50), called on login and logout
SetCurrentToken ==
    /\ \E t \in Tokens : currentToken' = t
    /\ UNCHANGED <<envToken, lastCall>>
    /\ UNCHANGED <<resolutionVars, probeVars, topVars, concVars>>

\* The requireAuth middleware (main.go:52-60): 401 when no token is found
RequireAuth ==
    /\ \E cookie \in Tokens :
         LET r == GetTokenFromContext(currentToken, cookie, envToken)
         IN /\ currentToken' = r.mem
            /\ lastCall' = [op |-> "requireAuth", cookie |-> cookie,
                            before |-> currentToken, ret |-> r.ret, after |-> r.mem,
                            panicked |-> r.panicked,
                            served |-> (~r.panicked /\ r.ret # NoToken)]
    /\ UNCHANGED envToken
    /\ UNCHANGED <<resolutionVars, probeVars, topVars, concVars>>

\* GET /api/categories (main.go:81-83): the handler is built, then runs
Categories ==
    /\ \E cookie \in Tokens :
         LET r == getMarketingHandler(currentToken, cookie, envToken)
         IN /\ currentToken' = r.mem
            /\ lastCall' = [op |-> "categories", cookie |-> cookie,
                            before |-> currentToken, ret |-> r.ret, after |-> r.mem,
                            panicked |-> r.panicked, served |-> ~r.panicked]
    /\ UNCHANGED envToken
    /\ UNCHANGED <<resolutionVars, probeVars, topVars, concVars>>

NextToken == SetCurrentToken \/ RequireAuth \/ Categories

SpecToken == InitToken /\ [][NextToken]_vars

----------------------------------------------------------------------------
(* Two calls of GetProductBestPriceWithLink on one MeliClient, their steps  *)
(* interleaved.  Each call has its own locals; bestPrice and minPrice are   *)
(* kept apart in accs so that where they live is a definition of its own.   *)

Runs == {1, 2}

ConcProducts == {"MLB123", "MLB456"}

ConcListings ==
    {[id |-> "A", price |-> 100, status |-> "active"],
     [id |-> "B", price |-> 80, status |-> "active"],
     [id |-> "B", price |-> 80, status |-> "paused"]}

ConcPages ==
    {r \in PageResponses :
        \/ r.kind = "err"
        \/ /\ r.kind = "http" /\ r.status = StatusOK /\ r.read
           /\ r.body.json = "object"
           /\ \/ r.body.items = 1 /\ r.body.results = 0
                 /\ r.body.paging = pagingInfo(0, 0, 0)
              \/ r.body.items = 0 /\ r.body.results = 1
                 /\ r.body.paging = pagingInfo(20, 0, 10)}

ConcConfirms ==
    {r \in ConfirmResponses :
        \/ r.kind = "err" /\ ~r.resp
        \/ r.kind = "http" /\ r.status = StatusOK /\ r.body.json = "object"
           /\ r.body.status \in {"active", "paused"}}

\* `var bestPrice *ProductPrice; minPrice := math.MaxFloat64` (518-519)
freshAcc == [minPrice |-> MaxFloat64, bestPrice |-> Nil]

\* One pair of variables for every call
accSlot_shared(r) == 1

\* bestPrice and minPrice are locals of the call: one pair per call
accSlot(r) == r

\* MeliClient as NewMeliClient builds it (lines 22-38)
theClient == [baseURL |-> "https://api.mercadolibre.com", accessToken |-> "tok",
              clientID |-> "id"]

newRun(pid) ==
    [productID |-> pid, pc |-> "start", paging |-> pagingInfo(0, 0, 0), offset |-> 0,
     folded |-> 0, shape |-> "none", left |-> 0, retVal |-> Nil, retErr |-> Nil,
     heard |-> <<>>, resp |-> Nil, reply |-> Nil]

\* The request of the run's current page
runRequest(run) ==
    IF run.folded = 0 THEN itemsRequest ELSE pagedRequest(run.offset, run.paging.Limit)

\* The run after a listings response has arrived (as Receive)
received(run, resp) ==
    LET paged == run.folded > 0
        err == pageError(resp, paged, requestURL(run.productID, runRequest(run)))
    IN IF err # Nil
       THEN [run EXCEPT !.pc = "done", !.retErr = err, !.resp = resp]
       ELSE [run EXCEPT !.pc = "fold", !.resp = resp,
                        !.shape = detectShape(resp.body),
                        !.left = shapeLen(resp.body),
                        !.paging = IF paged THEN @ ELSE shapePaging(resp.body)]

InitConc ==
    /\ client = theClient
    /\ \E pid \in ConcProducts : runs = <<newRun("MLB123"), newRun(pid)>>
    /\ accs = [s \in Runs |-> freshAcc]
    /\ productID = "MLB123"
    /\ InitResolution
    /\ InitProbe
    /\ IdleTop
    /\ IdleToken

\* Entry of the call and its first request (lines 499-638)
CFirstPage(r) ==
    /\ runs[r].pc = "start"
    /\ accs' = [accs EXCEPT ![accSlot(r)] = freshAcc]
    /\ \E resp \in ConcPages : runs' = [runs EXCEPT ![r] = received(@, resp)]
    /\ UNCHANGED client
    /\ UNCHANGED <<resolutionVars, probeVars, topVars, tokenVars>>

\* One iteration of the range loop of the accepted branch
CFold(r) ==
    /\ runs[r].pc = "fold"
    /\ runs[r].left > 0
    /\ \E l \in ConcListings :
         /\ accs' = [accs EXCEPT ![accSlot(r)] = foldByShape(runs[r].shape, @, l)]
         /\ runs' = [runs EXCEPT ![r].left = @ - 1,
                                 ![r].heard = Append(@, [shape |-> runs[r].shape,
                                                         listing |-> l])]
    /\ UNCHANGED client
    /\ UNCHANGED <<resolutionVars, probeVars, topVars, tokenVars>>

\* processBody returns; header of the pagination loop (638-645)
CEndPage(r) ==
    /\ runs[r].pc = "fold"
    /\ runs[r].left = 0
    /\ runs' = [runs EXCEPT
                  ![r].folded = @ + 1,
                  ![r].offset = IF runs[r].folded > 0 THEN @ + runs[r].paging.Limit
                                ELSE IF hasPaging(runs[r].paging)
                                     THEN runs[r].paging.Offset + runs[r].paging.Limit
                                     ELSE @,
                  ![r].pc = IF runs[r].folded > 0 \/ hasPaging(runs[r].paging)
                            THEN "loop" ELSE "select"]
    /\ UNCHANGED <<client, accs>>
    /\ UNCHANGED <<resolutionVars, probeVars, topVars, tokenVars>>

\* One further page request (lines 645-675)
CNextPage(r) ==
    /\ runs[r].pc = "loop"
    /\ loopContinues(runs[r].offset, runs[r].paging)
    /\ \E resp \in ConcPages : runs' = [runs EXCEPT ![r] = received(@, resp)]
    /\ UNCHANGED <<client, accs>>
    /\ UNCHANGED <<resolutionVars, probeVars, topVars, tokenVars>>

\* After the loop: bestPrice == nil check, confirmation request (679-691)
CSelectBest(r) ==
    /\ \/ runs[r].pc = "select"
       \/ runs[r].pc = "loop" /\ ~loopContinues(runs[r].offset, runs[r].paging)
    /\ LET out == beforeConfirm(accs[accSlot(r)].bestPrice, runs[r].productID)
       IN runs' = IF out # Nil
                  THEN [runs EXCEPT ![r].pc = "done", ![r].retVal = out.retVal,
                                    ![r].retErr = out.retErr]
                  ELSE [runs EXCEPT ![r].pc = "validate"]
    /\ UNCHANGED <<client, accs>>
    /\ UNCHANGED <<resolutionVars, probeVars, topVars, tokenVars>>

\* The confirmation response has arrived (lines 691-718)
CValidate(r) ==
    /\ runs[r].pc = "validate"
    /\ \E cr \in ConcConfirms :
         LET out == validate(accs[accSlot(r)].bestPrice, cr)
         IN runs' = [runs EXCEPT ![r].pc = out.pc, ![r].retVal = out.retVal,
                                 ![r].retErr = out.retErr, ![r].reply = cr]
    /\ UNCHANGED <<client, accs>>
    /\ UNCHANGED <<resolutionVars, probeVars, topVars, tokenVars>>

NextConc ==
    \/ \E r \in Runs : CFirstPage(r)
    \/ \E r \in Runs : CFold(r)
    \/ \E r \in Runs : CEndPage(r)
    \/ \E r \in Runs : CNextPage(r)
    \/ \E r \in Runs : CSelectBest(r)
    \/ \E r \in Runs : CValidate(r)

SpecConc == InitConc /\ [][NextConc]_vars

----------------------------------------------------------------------------
(* Properties *)

Returned == pc = "done" /\ retVal # Nil

Failed == pc = "done" /\ retVal = Nil /\ retErr # Nil

ConfirmedActive ==
    /\ confirmReply # Nil
    /\ confirmReply.kind = "http"
    /\ confirmReply.status = StatusOK
    /\ confirmReply.body.json = "object"
    /\ confirmReply.body.status = "active"

ConfirmedInactive ==
    /\ confirmReply # Nil
    /\ confirmReply.kind = "http"
    /\ confirmReply.status = StatusOK
    /\ confirmReply.body.json = "object"
    /\ confirmReply.body.status # "active"

ItemRequests == SelectSeq(requests, LAMBDA r : r.path = "products/items")
ConfirmRequests == SelectSeq(requests, LAMBDA r : r.path = "items")

\* Least price > 0 seen among the listings of the classes C (0: none)
LeastOver(C) ==
    LET vals == {least[c] : c \in C} \ {0}
    IN IF vals = {} THEN 0 ELSE CHOOSE v \in vals : \A w \in vals : v <= w

ActiveClasses == {c \in Classes : c[1] = "active"}
\* What the code can tell: status for "items"/bare elements, nothing for "results"
FoldableClasses == {c \in Classes : c[1] = "active" \/ c[2]}

\* The run got past the pagination loop
SelectionReached ==
    \/ pc \in {"select", "validate", "panicked"}
    \/ Returned
    \/ /\ Failed
       /\ retErr.msg \in {"no active items with price for product",
                          "best price item is not active"}

\* C1 as stated: a result confirmed active carries the least price over all
\* listings of all pages with price > 0 and status "active", and the
\* identifier of a listing with that price.
C1_MinOverActive ==
    (Returned /\ ConfirmedActive) =>
        /\ retVal.Price = LeastOver(ActiveClasses)
        /\ src.listing.id = retVal.ItemID
        /\ src.listing.price = retVal.Price
        /\ src.listing.status = "active"

\* C1 amended: a result confirmed active carries the least price over all
\* listings with price > 0 that are "active" or came in the paged shape
\* (whose elements carry no status), and the identifier of such a listing
\* with that price.
C1_MinOverFoldable ==
    (Returned /\ ConfirmedActive) =>
        /\ retVal.Price = LeastOver(FoldableClasses)
        /\ src.listing.id = retVal.ItemID
        /\ src.listing.price = retVal.Price
        /\ src.listing.price > 0
        /\ (src.listing.status = "active" \/ src.shape = "paged")

\* The scenario of C1: one wrapped page with an active listing A at 100 and
\* a cheaper inactive one, A confirmed active, {100, A} returned.
C1_Witness ==
    /\ Returned /\ ConfirmedActive
    /\ folded = 1 /\ shape = "wrapped"
    /\ retVal = ProductPrice(100, "A")
    /\ least[<<"paused", FALSE>>] = 80

\* C2 as stated: the best candidate, and so the result, is never a listing
\* with price <= 0 or status other than "active".
C2_BestIsActive ==
    /\ bestPrice # Nil =>
        /\ src.listing.id = bestPrice.ItemID
        /\ src.listing.price = bestPrice.Price
        /\ src.listing.price > 0
        /\ src.listing.status = "active"
    /\ retVal # Nil => retVal = bestPrice

\* C2 amended: the best candidate, and so the result, never has price <= 0,
\* and never has a status other than "active" unless it came in the paged
\* shape, whose elements carry no status.
C2_BestIsFoldable ==
    /\ bestPrice # Nil =>
        /\ src.listing.id = bestPrice.ItemID
        /\ src.listing.price = bestPrice.Price
        /\ src.listing.price > 0
        /\ (src.listing.status = "active" \/ src.shape = "paged")
    /\ retVal # Nil => retVal = bestPrice

\* A cheaper inactive listing was passed over in a wrapped or bare page
C2_Witness ==
    /\ bestPrice # Nil
    /\ src.shape \in {"wrapped", "bare"}
    /\ least[<<"paused", FALSE>>] > 0
    /\ least[<<"paused", FALSE>>] < bestPrice.Price

SameOutcome(a, b) ==
    /\ a.pc = b.pc
    /\ (a.retErr = Nil) = (b.retErr = Nil)
    /\ (a.retErr # Nil => a.retErr.msg = b.retErr.msg)
    /\ (a.retVal = Nil) = (b.retVal = Nil)
    /\ (a.retVal # Nil => a.retVal.Price = b.retVal.Price)

\* C3 as stated: the same listings delivered wrapped, bare or paged (one
\* page) give the same resolved price or the same failure.
C3_ShapesAgree ==
    probeOut # Nil =>
        /\ SameOutcome(probeOut["wrapped"], probeOut["bare"])
        /\ SameOutcome(probeOut["wrapped"], probeOut["paged"])

\* C3 amended: wrapped and bare always give the same outcome; paged gives
\* the same outcome as them when every listing with price > 0 is "active".
C3_ShapesAgreeOnActive ==
    probeOut # Nil =>
        /\ SameOutcome(probeOut["wrapped"], probeOut["bare"])
        /\ probeActive => SameOutcome(probeOut["wrapped"], probeOut["paged"])

\* Two listings, all priced ones active, resolved to a price in all shapes
C3_Witness ==
    /\ probeOut # Nil
    /\ probeActive
    /\ probeLen >= 2
    /\ probe["paged"].bestPrice # Nil
    /\ probeOut["paged"].retVal # Nil
    /\ probeOut["wrapped"].retVal # Nil

\* Offsets of the later page requests for a first-page paging descriptor
ExpectedOffsets(pg) ==
    IF hasPaging(pg)
    THEN LET n == Cardinality({k \in 1..(pg.Total - pg.Offset) :
                                  pg.Offset + k * pg.Limit < pg.Total})
         IN [k \in 1..n |-> pg.Offset + k * pg.Limit]
    ELSE <<>>

\* C4: the first listings request has no offset/limit; after a paged first
\* page with total > 0 and limit > 0 the later requests are, in order and
\* once each, the offsets first_offset + k*limit < total with the first
\* page's limit; all of them are issued and their pages folded before the
\* selection.  total=25, limit=10, offset=0: fetches at 0, 10, 20.
C4_Pagination ==
    LET later == SubSeq(ItemRequests, 2, Len(ItemRequests))
        expected == ExpectedOffsets(paging)
    IN /\ requests # <<>> => requests[1] = itemsRequest
       /\ hasPaging(paging) =>
            /\ Len(later) <= Len(expected)
            /\ \A i \in 1..Len(later) :
                  later[i] = pagedRequest(expected[i], paging.Limit)
            /\ SelectionReached =>
                  /\ Len(later) = Len(expected)
                  /\ folded = Len(ItemRequests)
       /\ (SelectionReached /\ paging = pagingInfo(25, 0, 10)) =>
            ItemRequests = <<itemsRequest, pagedRequest(10, 10), pagedRequest(20, 10)>>

C4_Witness ==
    /\ SelectionReached
    /\ paging = pagingInfo(25, 0, 10)
    /\ Len(ItemRequests) = 3
    /\ folded = 3

\* C5: a confirmation that succeeds with a status other than "active" ends
\* the resolution in the not-active failure without a result; the one
\* confirmation request made is the winner's, no other listing is confirmed.
C5_FailClosed ==
    ConfirmedInactive =>
        /\ Failed
        /\ retErr = notActiveError(bestPrice.ItemID, confirmReply.body.status)
        /\ ConfirmRequests = <<confirmRequest(bestPrice.ItemID)>>
        /\ requests[Len(requests)] = confirmRequest(bestPrice.ItemID)

\* The winner at 80 is confirmed paused while a 100 candidate was also seen
C5_Witness ==
    /\ ConfirmedInactive
    /\ confirmReply.body.status = "paused"
    /\ bestPrice.Price = 80
    /\ least[<<"active", TRUE>>] = 80
    /\ least[<<"paused", TRUE>>] = 100
    /\ Failed

\* C6 as stated: when the confirmation request fails at the transport layer
\* (an error and no response) the resolution returns the best candidate.
C6_TransportAccepted ==
    (confirmReply # Nil /\ confirmReply.kind = "err" /\ ~confirmReply.resp) =>
        /\ pc = "done"
        /\ retVal = bestPrice
        /\ retErr = Nil

\* C7 as stated: a result returned without a confirmation reply reporting
\* "active" was returned only because the confirmation fetch failed at the
\* transport layer.
C7_OnlyTransportUnconfirmed ==
    (Returned /\ ~ConfirmedActive) =>
        (confirmReply # Nil /\ confirmReply.kind = "err")

\* C7 amended: a result is returned without a confirmation reply reporting
\* "active" only when no verdict was obtained: no confirmation request was
\* made (empty or unusable identifier), the fetch failed, the reply was not
\* a 200, or its body did not decode.  A result is never returned against
\* a decoded 200 reply with another status.
C7_NeverAgainstVerdict ==
    Returned => ~ConfirmedInactive

\* A result returned after a 404 confirmation reply
C7_Witness ==
    /\ Returned
    /\ confirmReply # Nil
    /\ confirmReply.kind = "http"
    /\ confirmReply.status = 404

\* C8: a listings page that ends in a transport error, a non-200 status or
\* a shape-parse error makes the resolution fail without a result; that
\* page's request is the last request, no confirmation request is made.
C8_PageFailureAborts ==
    lastPage \in {"transport", "status", "read", "malformed", "empty"} =>
        /\ Failed
        /\ requests[Len(requests)].path = "products/items"
        /\ ConfirmRequests = <<>>
        /\ Len(requests) = folded + 1

\* A later page fails after an eligible listing was folded
C8_Witness ==
    /\ lastPage = "status"
    /\ folded >= 1
    /\ bestPrice # Nil
    /\ Failed

\* C9: a page body that is malformed, or of a known shape with an empty or
\* absent listing array, fails the resolution with the unknown-format
\* failure: no result, and not the no-active-listing failure.
C9_UnknownShapeFails ==
    lastPage \in {"malformed", "empty"} =>
        /\ Failed
        /\ retErr.msg = IF folded = 0
                        THEN "json decode product items: unknown items response format"
                        ELSE "json decode product items (paged): unknown items response format"

\* A later page with an empty listing array, nothing eligible before it
C9_Witness ==
    /\ lastPage = "empty"
    /\ folded >= 1
    /\ bestPrice = Nil
    /\ Failed

\* C10 as stated: a resolution that has ended delivered exactly one of a
\* result and an error, and a result only with a winning listing.
C10_ExactlyOne ==
    pc \in {"done", "panicked"} =>
        /\ (retVal # Nil) # (retErr # Nil)
        /\ retVal # Nil => (bestPrice # Nil /\ retVal = bestPrice)

Terminal == pc \in {"done", "panicked"}

\* C11 as stated: once ctx is cancelled while a listings fetch or the
\* confirmation fetch is blocking, the resolution ends in a failure of the
\* cancellation kind (the context error that Do or ReadAll surfaced) and
\* returns no result.
C11_CancelFails ==
    cancelled # "no" =>
        /\ Failed
        /\ retErr.msg \in {"http client error", "read body error"}

NoActiveFailure == Failed /\ retErr = noActiveError(productID)

\* C12 as stated: when every page was fetched and parsed and no listing on
\* any page has price > 0 and status "active", the resolution fails with
\* the no-active-listing failure naming the product, and no confirmation
\* request is made.
C12_NoActiveListing ==
    (SelectionReached /\ pc # "select" /\ LeastOver(ActiveClasses) = 0) =>
        /\ NoActiveFailure
        /\ ConfirmRequests = <<>>

\* C12 amended: the same when no listing has price > 0 and is either
\* "active" or an element of a paged page (which carries no status).
C12_NoFoldableListing ==
    (SelectionReached /\ pc # "select" /\ LeastOver(FoldableClasses) = 0) =>
        /\ NoActiveFailure
        /\ ConfirmRequests = <<>>

\* Two pages folded, a priced paused listing among them, nothing eligible
C12_Witness ==
    /\ NoActiveFailure
    /\ folded >= 2
    /\ least[<<"paused", FALSE>>] > 0
    /\ LeastOver(FoldableClasses) = 0

\* The error text holds the product identifier (by itself or in a URL)
NamesProduct(e) ==
    \/ "product" \in DOMAIN e /\ e.product = productID
    \/ "url" \in DOMAIN e /\ e.url.product = productID

\* The error text tells the stage: every text but ReadAll's own error
NamesStage(e) == e.msg # "read body error"

\* C14 as stated: every failure returned carries the product identifier
\* and the stage at which it occurred.
C14_FailureNamesProductAndStage ==
    Failed => (NamesProduct(retErr) /\ NamesStage(retErr))

\* C14 amended: every failure is an error of one of the code's texts; the
\* texts for an unexpected status and for an unknown shape tell the first
\* page from a later one; the product identifier is carried by the
\* no-active-listing failure and, within the request URL, by the errors of
\* newRequest and Do, and by no other failure; the validation failure
\* carries the winner's listing identifier and the confirmed status.
C14_FailureContent ==
    Failed =>
        LET m == retErr.msg
            later == folded >= 1
        IN /\ CASE m = "new request error" ->
                     /\ requests = <<>>
                     /\ retErr.url = requestURL(productID, itemsRequest)
                [] m = "http client error" ->
                     /\ lastPage = "transport"
                     /\ retErr.url = requestURL(productID, requests[Len(requests)])
                [] m = "meli product items: status" ->
                     lastPage = "status" /\ ~later /\ retErr.status # StatusOK
                [] m = "meli product items (paged): status" ->
                     lastPage = "status" /\ later /\ retErr.status # StatusOK
                [] m = "read body error" -> lastPage = "read"
                [] m = "json decode product items: unknown items response format" ->
                     lastPage \in {"malformed", "empty"} /\ ~later
                [] m = "json decode product items (paged): unknown items response format" ->
                     lastPage \in {"malformed", "empty"} /\ later
                [] m = "no active items with price for product" ->
                     retErr.product = productID /\ bestPrice = Nil
                [] m = "best price item is not active" ->
                     /\ retErr.item = bestPrice.ItemID
                     /\ retErr.status = confirmReply.body.status
                [] OTHER -> FALSE
           /\ NamesProduct(retErr) <=>
                 m \in {"new request error", "http client error",
                        "no active items with price for product"}

\* A later page answered with a non-200 status
C14_Witness ==
    /\ Failed
    /\ retErr.msg = "meli product items (paged): status"
    /\ folded >= 1
    /\ ~NamesProduct(retErr)

\* C15: when the body of a page fails shape detection, the failure returned
\* contains that body unchanged, for the first page and for a later page.
C15_BodyInFailure ==
    lastBad # Nil =>
        /\ Failed
        /\ "body" \in DOMAIN retErr
        /\ retErr.body = lastBad

\* A later page that decodes as an object with both arrays empty
C15_Witness ==
    /\ lastBad # Nil
    /\ lastBad.json = "object"
    /\ folded >= 1
    /\ Failed
    /\ retErr.body = lastBad

stageRank(p) ==
    CASE p = "start" -> 0
      [] p \in {"fold", "loop"} -> 1
      [] p = "select" -> 2
      [] p = "validate" -> 3
      [] OTHER -> 4

\* Requests in a state that respects the order of the stages
OrderInv ==
    /\ Len(ConfirmRequests) <= 1
    /\ \A i, j \in 1..Len(requests) : i # j => requests[i] # requests[j]
    /\ ConfirmRequests # <<>> =>
          /\ requests[Len(requests)].path = "items"
          /\ pc \in {"validate", "done", "panicked"}
          /\ folded = Len(ItemRequests)
          /\ Len(ItemRequests) = 1 + Len(ExpectedOffsets(paging))
    /\ Failed => (ConfirmRequests = <<>> \/ ConfirmedInactive)

\* C19: the stages follow one another in order (start, first page, later
\* pages, selection, validation, end); every step issues at most one
\* request; the confirmation request is issued at most once, after every
\* listings page was fetched and folded, and no listings request follows
\* it; no request is repeated; once the resolution has ended no request is
\* issued.
C19_Order ==
    [][/\ stageRank(pc') >= stageRank(pc)
       /\ \/ requests' = requests
          \/ /\ Len(requests') = Len(requests) + 1
             /\ SubSeq(requests', 1, Len(requests)) = requests
             /\ ~Terminal
             /\ pc \in {"start", "loop", "select"}
       /\ OrderInv']_vars

\* Three pages fetched and folded, then the confirmation, then the end
C19_Witness ==
    /\ pc = "done"
    /\ Len(requests) = 4
    /\ requests[4].path = "items"
    /\ folded = 3
    /\ confirmReply # Nil

\* C20: folding a listing never raises the price of the best candidate,
\* and never resets an existing candidate to none; the running minimum is
\* the candidate's price.
C20_BestNeverWorse ==
    [][/\ bestPrice # Nil =>
             /\ bestPrice' # Nil
             /\ bestPrice'.Price <= bestPrice.Price
       /\ minPrice' <= minPrice
       /\ bestPrice' # Nil => minPrice' = bestPrice'.Price]_vars

\* The candidate at 100 of the first (paged) page was replaced by a listing
\* at 80 of the second page
C20_Witness ==
    /\ folded = 1
    /\ shape = "wrapped"
    /\ least[<<"active", TRUE>>] = 100
    /\ least[<<"paused", TRUE>>] = 0
    /\ bestPrice # Nil
    /\ bestPrice.Price = 80

\* C16 as stated: the list TopSoldByCategory(categoryID, limit) returns
\* never has more than limit items.
C16_AtMostLimit ==
    (topPc = "done" /\ topRet # Nil) => Len(topRet.items) <= topLimit

\* C17 as stated: GET /api/categories is served whatever token is found,
\* and also when none is found in memory, cookie or environment.
C17_CategoriesServed ==
    lastCall.op = "categories" => (lastCall.served /\ ~lastCall.panicked)

FirstNonEmpty(a, b, c) ==
    IF a # NoToken THEN a ELSE IF b # NoToken THEN b ELSE c

\* C18 as stated: GetTokenFromContext returns the first non-empty of the
\* token in memory, the cookie and the environment variable, in that
\* order; a token taken from the cookie is stored in memory, and otherwise
\* the token in memory is left as it was.
C18_TokenPriority ==
    lastCall.op = "requireAuth" =>
        /\ ~lastCall.panicked
        /\ lastCall.ret = FirstNonEmpty(lastCall.before, lastCall.cookie, envToken)
        /\ lastCall.after = IF lastCall.before = NoToken /\ lastCall.cookie # NoToken
                            THEN lastCall.cookie ELSE lastCall.before

RECURSIVE foldAll(_)
\* The accumulator of a call that folds the listings h and nothing else
foldAll(h) ==
    IF h = <<>> THEN freshAcc
    ELSE foldByShape(h[Len(h)].shape, foldAll(SubSeq(h, 1, Len(h) - 1)),
                     h[Len(h)].listing)

\* What a call returns alone, given the responses the run received
soloOutcome(run) ==
    LET best == foldAll(run.heard).bestPrice
        paged == run.folded > 0
        err == pageError(run.resp, paged, requestURL(run.productID, runRequest(run)))
    IN IF err # Nil THEN [pc |-> "done", retVal |-> Nil, retErr |-> err]
       ELSE IF beforeConfirm(best, run.productID) # Nil
       THEN beforeConfirm(best, run.productID)
       ELSE validate(best, run.reply)

SoloInv ==
    \A r \in Runs :
        /\ runs[r].pc # "start" => accs[accSlot(r)] = foldAll(runs[r].heard)
        /\ runs[r].pc \in {"done", "panicked"} =>
              [pc |-> runs[r].pc, retVal |-> runs[r].retVal, retErr |-> runs[r].retErr]
                 = soloOutcome(runs[r])

\* C13: two resolutions on the same client, for the same or for different
\* products, do not interfere: under every interleaving of their steps a
\* step of one leaves the locals of the other as they were, the candidate
\* of each is the fold of the listings it received itself, each returns
\* what it returns alone on the responses it received, and no step changes
\* the client.
C13_NoInterference ==
    [][/\ client' = client
       /\ \A r \in Runs : runs'[r] # runs[r] =>
              \A q \in Runs \ {r} : runs'[q] = runs[q]
       /\ SoloInv']_vars

\* Both calls under way at once, for the same product, with different
\* candidates
C13_Witness ==
    /\ runs # <<>>
    /\ runs[1].productID = runs[2].productID
    /\ runs[1].pc \in {"fold", "loop"}
    /\ runs[2].pc \in {"fold", "loop"}
    /\ accs[1].bestPrice = ProductPrice(100, "A")
    /\ accs[2].bestPrice = ProductPrice(80, "B")

\* C21 as stated: when several eligible listings (price > 0, status
\* "active") share the lowest price, the winner is the one of them seen
\* first, in page order and then in-page order.
C21_FirstSeenEligible ==
    (bestPrice # Nil /\ firstLow["active"] # Nil /\ firstLow["active"].tie) =>
        bestPrice = ProductPrice(firstLow["active"].price, firstLow["active"].id)

FirstSeenInv ==
    /\ bestPrice # Nil =>
          /\ firstLow["foldable"] # Nil
          /\ bestPrice = ProductPrice(firstLow["foldable"].price, firstLow["foldable"].id)
    /\ bestPrice = Nil => firstLow["foldable"] = Nil
    /\ Returned => retVal = bestPrice

\* C21 amended: a listing replaces the current best only when its price is
\* strictly lower; the winner is the first seen, in page order and then
\* in-page order, of the listings of least price among those with
\* price > 0 that are "active" or came in the paged shape.
C21_FirstSeenFoldable ==
    [][/\ (bestPrice # Nil /\ bestPrice' # bestPrice) =>
             /\ bestPrice' # Nil
             /\ bestPrice'.Price < bestPrice.Price
       /\ FirstSeenInv']_vars

\* Two pages folded, a second listing at the winner's price came later
C21_Witness ==
    /\ Returned
    /\ folded >= 2
    /\ firstLow["foldable"] # Nil
    /\ firstLow["foldable"].tie
    /\ retVal.ItemID = firstLow["foldable"].id
    /\ src.shape \in {"wrapped", "bare"}

\* C22: a body that decodes as an object with a non-empty "items" array and
\* a non-empty "results" array is handled as wrapped: its elements are
\* folded as items, none as a result, and when it is the first page its
\* paging descriptor is not used, so that no further request is made.
C22_WrappedBeforePaged ==
    both # "no" =>
        /\ lastPage = "listings"
        /\ shape = "wrapped"
        /\ pc = "fold" => left <= MaxLen
        /\ Len(ItemRequests) = 1 =>
              /\ paging = pagingInfo(0, 0, 0)
              /\ pc # "loop"
              /\ \A st \in Statuses : least[<<st, TRUE>>] = 0
              /\ src # Nil => src.shape = "wrapped"

\* A first page with both arrays and a usable paging descriptor, resolved
\* with a single listings request
C22_Witness ==
    /\ both = "bothPaged"
    /\ Returned
    /\ folded = 1
    /\ Len(ItemRequests) = 1
    /\ src.shape = "wrapped"

\* C23: when the first page is wrapped or bare, or paged with total <= 0 or
\* limit <= 0, the listings request without offset/limit is the only one,
\* and the selection is made after that page alone.
C23_SingleRequest ==
    /\ (Len(ItemRequests) = 1 /\ pc = "fold" /\ shape \in {"wrapped", "bare"}) =>
          paging = pagingInfo(0, 0, 0)
    /\ (paging.Total <= 0 \/ paging.Limit <= 0) =>
          /\ Len(ItemRequests) <= 1
          /\ ItemRequests # <<>> => ItemRequests[1] = itemsRequest
          /\ folded <= 1
          /\ SelectionReached => (Len(ItemRequests) = 1 /\ folded = 1)

\* A paged first page with total 20 and limit 0, resolved from it alone
C23_Witness ==
    /\ paging = pagingInfo(20, 0, 0)
    /\ shape = "paged"
    /\ Returned
    /\ ItemRequests = <<itemsRequest>>

\* C24 as stated: the later requests number at most the multiples of limit
\* between the first offset and total (none when limit <= 0), and a
\* resolution is either at a step it can take or has ended in Return or
\* Fail.
C24_EndsInReturnOrFail ==
    /\ Len(ItemRequests) <= 1 + Len(ExpectedOffsets(paging))
    /\ paging.Limit <= 0 => Len(ItemRequests) <= 1
    /\ pc \in {"start", "fold", "loop", "select", "validate", "done"}
    /\ pc = "done" => (Returned \/ Failed)

\* C25: a confirmation reply that is not a 200, or a 200 whose body does
\* not decode, makes the resolution return the best candidate as it is,
\* without an error.
C25_NoVerdictReturns ==
    (/\ confirmReply # Nil
     /\ confirmReply.kind = "http"
     /\ (confirmReply.status # StatusOK \/ confirmReply.body.json = "invalid")) =>
        /\ Returned
        /\ retVal = bestPrice
        /\ retErr = Nil

\* A 200 reply with an undecodable body, the candidate at 80 returned
C25_Witness ==
    /\ confirmReply # Nil
    /\ confirmReply.kind = "http"
    /\ confirmReply.status = StatusOK
    /\ confirmReply.body.json = "invalid"
    /\ Returned
    /\ retVal.Price = 80

\* A winner was selected
WinnerSelected ==
    /\ bestPrice # Nil
    /\ SelectionReached
    /\ pc # "select"

\* C26 as stated: a winner with an empty identifier is returned without a
\* confirmation request; for a winner with a non-empty identifier exactly
\* one confirmation request is made, for that identifier.
C26_ConfirmIffIdentifier ==
    WinnerSelected =>
        IF bestPrice.ItemID = ""
        THEN ConfirmRequests = <<>> /\ Returned /\ retVal = bestPrice
        ELSE ConfirmRequests = <<confirmRequest(bestPrice.ItemID)>>

\* C26 amended: a winner whose identifier is empty, or cannot be put into
\* a request URL, is returned without a confirmation request; for every
\* other winner exactly one confirmation request is made, for its
\* identifier.
C26_ConfirmIffUsable ==
    WinnerSelected =>
        IF bestPrice.ItemID = "" \/ ~urlParses(bestPrice.ItemID)
        THEN ConfirmRequests = <<>> /\ Returned /\ retVal = bestPrice
        ELSE ConfirmRequests = <<confirmRequest(bestPrice.ItemID)>>

\* A winner with an empty identifier returned after two pages
C26_Witness ==
    /\ WinnerSelected
    /\ bestPrice.ItemID = ""
    /\ folded >= 2
    /\ Returned
    /\ ConfirmRequests = <<>>

RECURSIVE kept(_)
kept(seen) ==
    IF seen = <<>> THEN <<>>
    ELSE IF Head(seen).failed THEN kept(Tail(seen))
    ELSE <<[highlight |-> Head(seen).highlight, Price |-> Head(seen).Price,
            LinkVenda |-> Head(seen).LinkVenda]>> \o kept(Tail(seen))

\* The highlights were taken in response order, each one once
InResponseOrder ==
    \A i \in 1..Len(topSeen) : topSeen[i].highlight = i

\* C28 as stated: TopSoldByCategory processes the highlights in response
\* order and returns, in that order, those whose detail lookup and
\* best-price resolution succeeded, each with the price (> 0) and link of
\* its own resolution; a failure for one highlight neither fails the call
\* nor stops the processing of the others.
C28_FailuresOmitted ==
    /\ InResponseOrder
    /\ topItems = kept(topSeen)
    /\ \A i \in 1..Len(topItems) : topItems[i].Price > 0
    /\ topPc \in {"loop", "done"} => Len(topSeen) = hIndex - 1
    /\ topPc = "done" =>
          /\ Len(topSeen) = content
          /\ topRet = [items |-> kept(topSeen)]
    /\ topPc # "panicked"

====
